---- MODULE Spec2Model ----
(***************************************************************************)
(* Model of the entity-data pipeline of UOR-Custom-Tago-Widgets:           *)
(*   - the analysis script "Forward entity data to Device.js", whose       *)
(*     formatEntityDataForDevice turns entity records and camera devices   *)
(*     into size-bounded datapoints (json / gzip_base64 / chunked);        *)
(*   - its job showEntityData, which fetches the entity records and the    *)
(*     camera devices, empties the entity device and sends the datapoints  *)
(*     to it in batches (updateEntityDevice);                              *)
(*   - the UDX-BAIE-Camera-Entity-Widget, whose processRealtimeData turns  *)
(*     the datapoints delivered by TagoIO's onRealtime into entityData;    *)
(*   - the state hooks of the other widgets of the repository, each under  *)
(*     a specification of its own.                                         *)
(*                                                                         *)
(* Strings are modelled symbolically.  A text is a slice [lo, hi) of the   *)
(* output of one encoder run on one value:                                 *)
(*     [kind, of, lo, hi]                                                  *)
(* kind "json" is JSON.stringify(of), kind "gzip_base64" is                *)
(* base64(gzip(JSON.stringify(of))), kind "garbage" is text that no        *)
(* encoder of the pipeline produced.  The length of a text is what the     *)
(* size thresholds see; a decoder accepts only a whole text of its own     *)
(* kind and throws on everything else.                                     *)
(***************************************************************************)
EXTENDS Integers, Sequences, FiniteSets, TLC

(***************************************************************************)
(* Program constants.                                                      *)
(***************************************************************************)
MAX_VALUE_SIZE == 5000
CHUNK_SIZE == 4500

(***************************************************************************)
(* Bounds of the model.                                                    *)
(***************************************************************************)
MaxRecords == 2        \* entity records in one encoding pass
MaxCameras == 1        \* camera devices in one encoding pass
MaxDelivery == 3       \* datapoints in one realtime delivery
MaxDelivered == 3      \* datapoints delivered to the widget in one run

Min(a, b) == IF a <= b THEN a ELSE b
Max(a, b) == IF a >= b THEN a ELSE b

(***************************************************************************)
(* Entity records and camera devices, as the analysis receives them.       *)
(* "" stands for a missing (undefined) field.  json_len is the number of   *)
(* characters of the record's JSON text and gzip_len the number of bytes   *)
(* gzip makes of that text: both are functions of the record's content,    *)
(* which the model does not spell out.                                     *)
(***************************************************************************)
Rec(id, uid, name, type, park, jl, gl) ==
  [id |-> id, unique_id |-> uid, name |-> name, record_type |-> type,
   info_park |-> park, json_len |-> jl, gzip_len |-> gl]

Cam(id, name, type, park, jl, gl) ==
  [id |-> id, name |-> name, device_type |-> type, park |-> park,
   is_configured |-> (type # "camera"), json_len |-> jl, gzip_len |-> gl]

EntityPool ==
  { Rec("e1", "u1", "alpha", "camera_scenario", "P1",   26,   46),
    Rec("e2", "u2", "beta",  "queue_venue",     "P2", 5000, 3700),
    Rec("e3", "u3", "gamma", "occupancy_venue", "",   5001, 3750),
    Rec("e4", "u4", "delta", "queue_venue",     "P1", 5200, 3751),
    Rec("e5", "",   "beta",  "occupancy_venue", "P2", 9500, 6750),
    Rec("",   "",   "",      "camera_scenario", "",   9600, 6751),
    Rec("e7", "u1", "alpha", "venue",           "P1", 20013,  60),
    Rec("e8", "u8", "alpha", "queue_venue",     "P2",   30,   50),
    Rec("e10", "u4", "delta", "queue_venue",    "P1", 5300, 3760) }

CameraPool ==
  { Cam("d1", "cam-a", "axis-camera", "P1",  310, 200),
    Cam("d2", "cam-b", "camera",      "",   5400, 900) }

\* new Date().getTime() of a pass (ms), kept within TLC's integers
Times == {0, 7200123}

\* The records and cameras of the passes the widget is checked on.
WidgetPool ==
  { r \in EntityPool : r.json_len \in {26, 30, 5001, 5200, 9600} }
WidgetCameraPool == { c \in CameraPool : c.json_len <= MAX_VALUE_SIZE }

SeqsUpTo(S, n) == UNION {[1..k -> S] : k \in 0..n}

(***************************************************************************)
(* Strings.                                                                *)
(***************************************************************************)
StrLen(t) == t.hi - t.lo

\* String.prototype.slice(start, end) for 0 <= start, 0 <= end.
StrSlice(t, start, end) ==
  LET len == StrLen(t)
      from == Min(start, len)
      to == Max(from, Min(end, len))
  IN [kind |-> t.kind, of |-> t.of, lo |-> t.lo + from, hi |-> t.lo + to]

\* JSON.stringify(value)
JSONstringify(value) ==
  [kind |-> "json", of |-> value, lo |-> 0, hi |-> value.json_len]

\* Buffer.toString('base64'): 4 characters for every 3 bytes, padded.
Base64Len(bytes) == 4 * ((bytes + 2) \div 3)

\* gzipSync(Buffer.from(str, 'utf-8')).toString('base64')
compressToBase64(str) ==
  [kind |-> "gzip_base64", of |-> str.of, lo |-> 0,
   hi |-> Base64Len(str.of.gzip_len)]

\* Math.ceil(a / b) for a >= 0, b > 0
Ceil(a, b) == (a + b - 1) \div b

(***************************************************************************)
(* Datapoint values: a string, a number or a boolean.                      *)
(***************************************************************************)
StrValue(t) == [str |-> t]
NumValue(n) == [num |-> n]
BoolValue(b) == [bool |-> b]
IsStr(v) == DOMAIN v = {"str"}

(***************************************************************************)
(* formatEntityDataForDevice                                               *)
(***************************************************************************)
\* `entity_${currentTime.toISOString().split('T')[0]}_${currentTime.getHours()}`
GroupId(currentTime) == <<"entity", currentTime \div 3600000>>

\* record.unique_id || record.id || `record_${index}`
RecordId(record, index) ==
  IF record.unique_id # "" THEN record.unique_id
  ELSE IF record.id # "" THEN record.id
  ELSE "record_" \o ToString(index)

\* record.info?.park || 'Unknown'
ParkOf(record) == IF record.info_park # "" THEN record.info_park ELSE "Unknown"

RecordMetadata(record, index, encoding) ==
  [record_type |-> record.record_type, unique_id |-> record.unique_id,
   name |-> record.name, park |-> ParkOf(record), index |-> index,
   encoding |-> encoding]

\* compressed.slice(chunkIdx * CHUNK_SIZE, (chunkIdx + 1) * CHUNK_SIZE)
ChunkData_Overlap(compressed, chunkIdx) ==
  StrSlice(compressed, chunkIdx * CHUNK_SIZE,
           chunkIdx * CHUNK_SIZE + MAX_VALUE_SIZE)
ChunkData(compressed, chunkIdx) ==
  StrSlice(compressed, chunkIdx * CHUNK_SIZE, (chunkIdx + 1) * CHUNK_SIZE)

\* Math.ceil(compressed.length / CHUNK_SIZE)
TotalChunks_Floor(compressed) == StrLen(compressed) \div CHUNK_SIZE
TotalChunks(compressed) == Ceil(StrLen(compressed), CHUNK_SIZE)

\* jsonStr.length <= MAX_VALUE_SIZE, compressed.length <= MAX_VALUE_SIZE
FitsSingleValue_Strict(str) == StrLen(str) < MAX_VALUE_SIZE
FitsSingleValue(str) == StrLen(str) <= MAX_VALUE_SIZE

\* new Date(currentTime.getTime() + timeOffset++), in ms
TimeAt_Base(currentTime, timeOffset) == currentTime
TimeAt(currentTime, timeOffset) == currentTime + timeOffset

\* The forEach callback with chunkIdx written as the chunk's metadata.index.
RecordPoints_IndexOfChunk(record, index, currentTime, timeOffset) ==
  LET jsonStr == JSONstringify(record)
      recordId == RecordId(record, index)
      compressed == compressToBase64(jsonStr)
      totalChunks == TotalChunks(compressed)
  IN IF FitsSingleValue(jsonStr) THEN
       << [variable |-> "entity_record",
           value |-> StrValue(jsonStr),
           time |-> TimeAt(currentTime, timeOffset),
           group |-> GroupId(currentTime),
           metadata |-> RecordMetadata(record, index, "json")] >>
     ELSE IF FitsSingleValue(compressed) THEN
       << [variable |-> "entity_record",
           value |-> StrValue(compressed),
           time |-> TimeAt(currentTime, timeOffset),
           group |-> GroupId(currentTime),
           metadata |-> RecordMetadata(record, index, "gzip_base64")] >>
     ELSE
       [k \in 1..totalChunks |->
          [variable |-> "entity_record_chunk",
           value |-> StrValue(ChunkData(compressed, k - 1)),
           time |-> TimeAt(currentTime, timeOffset + (k - 1)),
           group |-> GroupId(currentTime),
           metadata |->
             [record_type |-> record.record_type,
              unique_id |-> record.unique_id,
              name |-> record.name,
              park |-> ParkOf(record),
              index |-> k - 1,
              encoding |-> "gzip_base64_chunked",
              chunk_id |-> recordId,
              chunk_index |-> k - 1,
              total_chunks |-> totalChunks]]]

\* One pass of the entityRecords.forEach callback: the datapoints pushed for
\* `record`, the first of them at offset timeOffset.
RecordPoints(record, index, currentTime, timeOffset) ==
  LET jsonStr == JSONstringify(record)
      recordId == RecordId(record, index)
      compressed == compressToBase64(jsonStr)
      totalChunks == TotalChunks(compressed)
  IN IF FitsSingleValue(jsonStr) THEN
       << [variable |-> "entity_record",
           value |-> StrValue(jsonStr),
           time |-> TimeAt(currentTime, timeOffset),
           group |-> GroupId(currentTime),
           metadata |-> RecordMetadata(record, index, "json")] >>
     ELSE IF FitsSingleValue(compressed) THEN
       << [variable |-> "entity_record",
           value |-> StrValue(compressed),
           time |-> TimeAt(currentTime, timeOffset),
           group |-> GroupId(currentTime),
           metadata |-> RecordMetadata(record, index, "gzip_base64")] >>
     ELSE
       [k \in 1..totalChunks |->
          [variable |-> "entity_record_chunk",
           value |-> StrValue(ChunkData(compressed, k - 1)),
           time |-> TimeAt(currentTime, timeOffset + (k - 1)),
           group |-> GroupId(currentTime),
           metadata |->
             [record_type |-> record.record_type,
              unique_id |-> record.unique_id,
              name |-> record.name,
              park |-> ParkOf(record),
              index |-> index,
              encoding |-> "gzip_base64_chunked",
              chunk_id |-> recordId,
              chunk_index |-> k - 1,
              total_chunks |-> totalChunks]]]

\* The number of datapoints the forEach callback pushes for the elements
\* lo <= index < hi (zero-based): what timeOffset++ adds up to over them.
RECURSIVE PointCount(_, _, _)
PointCount(entityRecords, lo, hi) ==
  IF hi <= lo THEN 0
  ELSE IF hi = lo + 1 THEN Len(RecordPoints(entityRecords[hi], lo, 0, 0))
  ELSE PointCount(entityRecords, lo, (lo + hi) \div 2)
         + PointCount(entityRecords, (lo + hi) \div 2, hi)

\* The passes of entityRecords.forEach((record, index) => ...) for the
\* elements lo <= index < hi (zero-based), the first datapoint at offset
\* timeOffset.  The range is halved so that long lists stay shallow.
RECURSIVE EntityPointsIn(_, _, _, _, _)
EntityPointsIn(entityRecords, lo, hi, currentTime, timeOffset) ==
  IF hi <= lo THEN << >>
  ELSE IF hi = lo + 1
    THEN RecordPoints(entityRecords[hi], lo, currentTime, timeOffset)
  ELSE EntityPointsIn(entityRecords, lo, (lo + hi) \div 2, currentTime,
                      timeOffset)
         \o EntityPointsIn(entityRecords, (lo + hi) \div 2, hi, currentTime,
                           timeOffset
                             + PointCount(entityRecords, lo,
                                          (lo + hi) \div 2))

\* entityRecords.forEach((record, index) => ...), from element `index` on
\* (zero-based), with the running timeOffset.
EntityPoints(entityRecords, index, currentTime, timeOffset) ==
  EntityPointsIn(entityRecords, index, Len(entityRecords), currentTime,
                 timeOffset)

\* cameraDevices.forEach((camera, index) => ...): one datapoint per camera,
\* never compressed and never chunked.
CameraPoints(cams, currentTime, timeOffset) ==
  [k \in 1..Len(cams) |->
     [variable |-> "camera_device",
      value |-> StrValue(JSONstringify(cams[k])),
      time |-> TimeAt(currentTime, timeOffset + (k - 1)),
      group |-> GroupId(currentTime),
      metadata |->
        [device_id |-> cams[k].id, name |-> cams[k].name,
         device_type |-> cams[k].device_type, park |-> cams[k].park,
         is_configured |-> cams[k].is_configured, index |-> k - 1]]]

\* stats[record.record_type]++ for the three known record types
CountType(entityRecords, type) ==
  Cardinality({k \in 1..Len(entityRecords) :
                 entityRecords[k].record_type = type})

\* Array.from(parks) after the first k records: the distinct parks in
\* order of first appearance
ParksList(entityRecords, k) ==
  LET firsts == {m \in 1..k :
                   /\ entityRecords[m].info_park # ""
                   /\ \A j \in 1..(m - 1) :
                        entityRecords[j].info_park
                          # entityRecords[m].info_park}
      Nth(n) == CHOOSE m \in firsts :
                  Cardinality({j \in firsts : j <= m}) = n
  IN [n \in 1..Cardinality(firsts) |-> entityRecords[Nth(n)].info_park]

\* The six summary datapoints and the data_loaded marker.
SummaryPoints(entityRecords, cams, currentTime, timeOffset) ==
  LET parks == ParksList(entityRecords, Len(entityRecords))
      configured == Cardinality({k \in 1..Len(cams) : cams[k].is_configured})
      unconfigured == Cardinality({k \in 1..Len(cams) : ~cams[k].is_configured})
      Pt(variable, value, off, metadata) ==
        [variable |-> variable, value |-> value,
         time |-> TimeAt(currentTime, timeOffset + off),
         group |-> GroupId(currentTime), metadata |-> metadata]
      none == [none |-> TRUE]
  IN << Pt("total_records", NumValue(Len(entityRecords)), 0, none),
        Pt("camera_scenarios_count",
           NumValue(CountType(entityRecords, "camera_scenario")), 1, none),
        Pt("queue_venues_count",
           NumValue(CountType(entityRecords, "queue_venue")), 2, none),
        Pt("occupancy_venues_count",
           NumValue(CountType(entityRecords, "occupancy_venue")), 3, none),
        Pt("camera_devices_count", NumValue(Len(cams)), 4,
           [configured |-> configured, unconfigured |-> unconfigured]),
        Pt("parks_count", NumValue(Len(parks)), 5, [parks |-> parks]),
        Pt("data_loaded", BoolValue(TRUE), 6,
           [record_count |-> Len(entityRecords),
            camera_devices_count |-> Len(cams),
            last_update |-> currentTime]) >>

\* A pass that pushes the summary and the marker before the records.
formatEntityDataForDevice_SummaryFirst(entityRecords, cams, currentTime) ==
  LET summary == SummaryPoints(entityRecords, cams, currentTime, 0)
      recs == EntityPoints(entityRecords, 0, currentTime, Len(summary))
  IN summary \o recs
       \o CameraPoints(cams, currentTime, Len(summary) + Len(recs))

formatEntityDataForDevice(entityRecords, cams, currentTime) ==
  LET recs == EntityPoints(entityRecords, 0, currentTime, 0)
      camPts == CameraPoints(cams, currentTime, Len(recs))
  IN recs \o camPts
       \o SummaryPoints(entityRecords, cams, currentTime,
                        Len(recs) + Len(camPts))

(***************************************************************************)
(* The widget: processRealtimeData of UDX-BAIE-Camera-Entity-Widget.       *)
(***************************************************************************)
\* if (dp.value): '' , 0 and false are falsy
Truthy(value) ==
  IF IsStr(value) THEN StrLen(value.str) > 0
  ELSE IF DOMAIN value = {"num"} THEN value.num # 0
  ELSE value.bool

\* JSON.parse(text): the value, for the whole JSON text of a value; a
\* SyntaxError for anything else (a slice, base64 text, garbage).
JSONparse(text) ==
  IF text.kind = "json" /\ text.lo = 0 /\ text.hi = text.of.json_len
    THEN [threw |-> FALSE, parsed |-> text.of]
    ELSE [threw |-> TRUE]

\* try { parsed = typeof dp.value === 'string' ? JSON.parse(dp.value)
\*                                              : dp.value
\*       if (parsed && typeof parsed === 'object') push(parsed) } catch {}
\* The values pushed for one datapoint: none or one.
ParsedObject(dp) ==
  IF ~Truthy(dp.value) THEN << >>
  ELSE IF ~IsStr(dp.value) THEN << >>      \* a number or boolean: no object
  ELSE LET r == JSONparse(dp.value.str)
       IN IF r.threw THEN << >> ELSE << r.parsed >>

\* result.filter(dp => dp.variable === variable).forEach(parse and push)
RECURSIVE ParsedPoints(_, _)
ParsedPoints(result, variable) ==
  IF result = << >> THEN << >>
  ELSE (IF Head(result).variable = variable
          THEN ParsedObject(Head(result)) ELSE << >>)
       \o ParsedPoints(Tail(result), variable)

\* result.find(dp => dp.variable === 'entity_data'), then the legacy parse:
\* the array the datapoint carries, or `records` as it was.
LegacyRecords(result, records) ==
  LET at == {k \in 1..Len(result) : result[k].variable = "entity_data"}
  IN IF at = {} THEN records
     ELSE LET dp == result[CHOOSE k \in at : \A j \in at : k <= j]
          IN IF ~Truthy(dp.value) \/ ~IsStr(dp.value) THEN records
             ELSE LET r == JSONparse(dp.value.str)
                  IN IF ~r.threw /\ "array" \in DOMAIN r.parsed
                       THEN r.parsed.array ELSE records

\* The body of realtimeData.forEach(dataGroup => ...), from group k on.
\* acc = [records, cameras] is what the earlier groups accumulated.
RECURSIVE GroupsLoop(_, _, _)
GroupsLoop(realtimeData, k, acc) ==
  IF k > Len(realtimeData) THEN acc
  ELSE LET dataGroup == realtimeData[k]
       IN IF "result" \notin DOMAIN dataGroup
            THEN GroupsLoop(realtimeData, k + 1, acc)
            ELSE LET recs == acc.records
                            \o ParsedPoints(dataGroup.result, "entity_record")
                     cams == acc.cameras
                            \o ParsedPoints(dataGroup.result, "camera_device")
                     recs2 == IF Len(recs) = 0
                                THEN LegacyRecords(dataGroup.result, recs)
                                ELSE recs
                 IN GroupsLoop(realtimeData, k + 1,
                               [records |-> recs2, cameras |-> cams])

\* String.prototype.localeCompare on the names of the model, as the sign
\* of the difference of their ranks in alphabetical order.
NameOrder == <<"", "alpha", "beta", "cam-a", "cam-b", "delta", "gamma">>
NameRank(name) == CHOOSE k \in 1..Len(NameOrder) : NameOrder[k] = name
LocaleCompare(a, b) == NameRank(a) - NameRank(b)

\* The comparator of records.sort
CompareRecords(a, b) ==
  IF "metadata" \in DOMAIN a /\ "metadata" \in DOMAIN b
    THEN a.metadata.index - b.metadata.index
    ELSE LocaleCompare(a.name, b.name)

\* The comparator of cameras.sort
CompareCameras(a, b) == LocaleCompare(a.name, b.name)

\* Array.prototype.sort with a comparator that is a total preorder: the
\* sort is stable, so an element comes after those that compare less and
\* after the earlier ones that compare equal.
\* records.sort((a, b) => ...)
SortRecords(s) ==
  LET pos(i) == 1 + Cardinality({j \in 1..Len(s) :
                                   \/ CompareRecords(s[j], s[i]) < 0
                                   \/ CompareRecords(s[j], s[i]) = 0 /\ j < i})
  IN [k \in 1..Len(s) |-> s[CHOOSE i \in 1..Len(s) : pos(i) = k]]

\* cameras.sort((a, b) => ...)
SortCameras(s) ==
  LET pos(i) == 1 + Cardinality({j \in 1..Len(s) :
                                   \/ CompareCameras(s[j], s[i]) < 0
                                   \/ CompareCameras(s[j], s[i]) = 0 /\ j < i})
  IN [k \in 1..Len(s) |-> s[CHOOSE i \in 1..Len(s) : pos(i) = k]]

\* The locals `records` and `cameras` of processRealtimeData when it
\* reaches the state updates (after both sorts).
ProcessedRealtime(realtimeData) ==
  LET parsed ==
        IF realtimeData # << >> /\ "result" \in DOMAIN realtimeData[1]
          THEN GroupsLoop(realtimeData, 1,
                          [records |-> << >>, cameras |-> << >>])
          ELSE [records |-> realtimeData, cameras |-> << >>]
  IN [records |-> SortRecords(parsed.records),
      cameras |-> SortCameras(parsed.cameras)]

(***************************************************************************)
(* State.                                                                  *)
(***************************************************************************)
VARIABLES
  pc,             \* "input": the pass has its inputs; "formatted": it ran
  entityRecords,  \* the entity records handed to the encoding pass
  cameraRecords,  \* the camera devices handed to the encoding pass
  currentTime,    \* new Date() of the encoding pass, in ms
  deviceData,     \* what formatEntityDataForDevice returned
  mode,           \* isDevelopmentMode(): "development" or "production"
  entityData,     \* widget state
  cameraDevices,  \* widget state
  isLoading,      \* widget state
  realtimeEventCount,  \* widget state
  lastUpdate,     \* widget state: "null" or "date"
  realtimeData,   \* the argument of the last processRealtimeData call
  records,        \* the local `records` at the end of that call
  cameras,        \* the local `cameras` at the end of that call
  delivered,      \* datapoints the channel has delivered so far
  jobPc,          \* the await showEntityData is suspended at, or its outcome
  error,          \* the error being thrown, "" when none
  contextLog,     \* the error lines written with context.log
  fullPages,      \* per device type: the full pages the tenant has
  page,           \* per device type: `page` of fetchDevicesByType
  listing,        \* per device type: a Resources.devices.list call is pending
  deviceBefore,   \* the datapoints the device held when the job started
  device,         \* the datapoints the entity device holds
  loopIndex,      \* `i` of the batch loop of updateEntityDevice
  totalSent,      \* `totalSent` of that loop
  inflight,       \* the batches of the pending sendDeviceData calls
  calls           \* the sendDeviceData calls made: first index and length

\* State of useSensorFilters (People-Counter-Comparison widget).
VARIABLES
  selectedWorld,
  selectedBuilding,
  selectedFloor,
  selectedDesignation,
  selectedRoomType,
  selectedDate,
  filterCall      \* the last call of a filter action: name, argument, the
                  \* filters it found

filterVars == <<selectedWorld, selectedBuilding, selectedFloor,
                selectedDesignation, selectedRoomType, selectedDate,
                filterCall>>

\* State of useSelectedSensors (People-Counter-Comparison widget).
VARIABLES
  selectedSensors,
  sensorCall      \* the last call of a selection action: name, argument,
                  \* the length of the selection it found

sensorVars == <<selectedSensors, sensorCall>>

\* State of useDaySelection (weather widget).
VARIABLES
  dayForecasts,      \* the argument of the hook at the last render
  selectedDay,
  selectedHourIndex,
  selectedMetric,
  dayCall,           \* the last call of a handler: name, argument, the
                     \* selectedHourIndex it found
  hourClicked        \* an hour was clicked since the last handleDaySelect

dayVars == <<dayForecasts, selectedDay, selectedHourIndex, selectedMetric,
             dayCall, hourClicked>>

\* State of the water-level widget (WidgetView).
VARIABLES
  waterRealtime,       \* the argument of the last processRealtimeData call
  waterLevelData,
  waterLoading,        \* isLoading
  waterEventCount      \* realtimeEventCount

waterVars == <<waterRealtime, waterLevelData, waterLoading, waterEventCount>>
hookVars == <<filterVars, sensorVars, dayVars, waterVars>>

encVars == <<pc, entityRecords, cameraRecords, currentTime, deviceData>>
widgetVars == <<mode, entityData, cameraDevices, isLoading,
                realtimeEventCount, lastUpdate, realtimeData, records,
                cameras, delivered>>
jobVars == <<jobPc, error, contextLog, fullPages, page, listing,
             deviceBefore, device,
             loopIndex, totalSent, inflight, calls>>
vars == <<encVars, widgetVars, jobVars, hookVars>>

WidgetInit ==
  /\ entityData = << >>
  /\ cameraDevices = << >>
  /\ isLoading = TRUE
  /\ realtimeEventCount = 0
  /\ lastUpdate = "null"
  /\ realtimeData = << >>
  /\ records = << >>
  /\ cameras = << >>
  /\ delivered = 0

\* The device types fetchCameraDevices asks for.
CAMERA_DEVICE_TYPES == <<"axis-camera", "hanwha-camera", "camera">>
DeviceTypes == {CAMERA_DEVICE_TYPES[k] : k \in 1..Len(CAMERA_DEVICE_TYPES)}

\* showEntityData is not running.
JobIdle ==
  /\ jobPc = "idle"
  /\ error = ""
  /\ contextLog = << >>
  /\ fullPages = [t \in DeviceTypes |-> 0]
  /\ page = [t \in DeviceTypes |-> 1]
  /\ listing = [t \in DeviceTypes |-> FALSE]
  /\ deviceBefore = << >>
  /\ device = << >>
  /\ loopIndex = 0
  /\ totalSent = 0
  /\ inflight = << >>
  /\ calls = << >>

\* The filters after the first render of useSensorFilters; `today` is the
\* day of that render.
Today == "2026-11-02"

FiltersIdle ==
  /\ selectedWorld = ""
  /\ selectedBuilding = ""
  /\ selectedFloor = ""
  /\ selectedDesignation = ""
  /\ selectedRoomType = ""
  /\ selectedDate = Today
  /\ filterCall = [name |-> "none"]

\* The selection after the first render of useSelectedSensors.
SensorsIdle ==
  /\ selectedSensors = << >>
  /\ sensorCall = [name |-> "none"]

\* `null` in a state that otherwise holds a number, and in one that
\* otherwise holds a day.
NoHour == 0 - 1
NoDay == "null"

\* useDaySelection after its first render, before any forecast is there.
DayIdle ==
  /\ dayForecasts = << >>
  /\ selectedDay = NoDay
  /\ selectedHourIndex = NoHour
  /\ selectedMetric = "temperature"
  /\ dayCall = [name |-> "none"]
  /\ hourClicked = FALSE

\* The water-level widget after its first render.
WaterIdle ==
  /\ waterRealtime = << >>
  /\ waterLevelData = << >>
  /\ waterLoading = TRUE
  /\ waterEventCount = 0

HooksIdle == FiltersIdle /\ SensorsIdle /\ DayIdle /\ WaterIdle

(***************************************************************************)
(* The encoding pass alone.                                                *)
(***************************************************************************)
InitEnc ==
  /\ pc = "input"
  /\ entityRecords \in SeqsUpTo(EntityPool, MaxRecords)
  /\ cameraRecords \in SeqsUpTo(CameraPool, MaxCameras)
  /\ currentTime \in Times
  /\ deviceData = << >>
  /\ mode = "production"
  /\ WidgetInit
  /\ JobIdle
  /\ HooksIdle

\* One call of formatEntityDataForDevice on the inputs.
Format ==
  /\ pc = "input"
  /\ mode = "production"
  /\ deviceData' = formatEntityDataForDevice(entityRecords, cameraRecords,
                                             currentTime)
  /\ pc' = "formatted"
  /\ UNCHANGED <<entityRecords, cameraRecords, currentTime>>
  /\ UNCHANGED widgetVars
  /\ UNCHANGED jobVars
  /\ UNCHANGED hookVars

NextEnc == Format

SpecEnc == InitEnc /\ [][NextEnc]_vars

(***************************************************************************)
(* The widget on the channel the encoding pass wrote.                      *)
(***************************************************************************)
\* A handler that counts only the deliveries that yield records.
RealtimeUpdates_CountOnYield(data) ==
  LET out == ProcessedRealtime(data)
  IN /\ realtimeData' = data
     /\ records' = out.records
     /\ cameras' = out.cameras
     /\ lastUpdate' = "date"
     /\ IF Len(out.records) > 0
          THEN /\ entityData' = out.records
               /\ isLoading' = FALSE
               /\ realtimeEventCount' = realtimeEventCount + 1
          ELSE UNCHANGED <<entityData, isLoading, realtimeEventCount>>

\* A handler that appends the records of a delivery to those it has.
RealtimeUpdates_Merge(data) ==
  LET out == ProcessedRealtime(data)
  IN /\ realtimeData' = data
     /\ records' = out.records
     /\ cameras' = out.cameras
     /\ realtimeEventCount' = realtimeEventCount + 1
     /\ lastUpdate' = "date"
     /\ IF Len(out.records) > 0
          THEN entityData' = entityData \o out.records /\ isLoading' = FALSE
          ELSE UNCHANGED <<entityData, isLoading>>

\* RealtimeUpdates with entityData and isLoading set on every delivery.
RealtimeUpdates_Clear(data) ==
  LET out == ProcessedRealtime(data)
  IN /\ realtimeData' = data
     /\ records' = out.records
     /\ cameras' = out.cameras
     /\ realtimeEventCount' = realtimeEventCount + 1
     /\ lastUpdate' = "date"
     /\ entityData' = out.records
     /\ isLoading' = FALSE

\* The state updates at the end of processRealtimeData(data), but for
\* setCameraDevices.
RealtimeUpdates(data) ==
  LET out == ProcessedRealtime(data)
  IN /\ realtimeData' = data
     /\ records' = out.records
     /\ cameras' = out.cameras
     /\ realtimeEventCount' = realtimeEventCount + 1
     /\ lastUpdate' = "date"
     /\ IF Len(out.records) > 0
          THEN entityData' = out.records /\ isLoading' = FALSE
          ELSE UNCHANGED <<entityData, isLoading>>

processRealtimeData(data) ==
  /\ RealtimeUpdates(data)
  /\ LET out == ProcessedRealtime(data)
     IN cameraDevices' = IF Len(out.cameras) > 0 THEN out.cameras
                                                 ELSE cameraDevices

\* Datapoints on the device that the encoding pass did not write: an
\* entity_record whose value is not JSON, and a legacy entity_data
\* datapoint carrying a JSON array of records.
LegacyArray ==
  [array |-> << Rec("e9", "u9", "gamma", "queue_venue", "P2", 40, 60) >>,
   json_len |-> 42]

ForeignPoints ==
  << [variable |-> "entity_record",
      value |-> StrValue([kind |-> "garbage", of |-> LegacyArray,
                          lo |-> 0, hi |-> 17]),
      time |-> 1, group |-> <<"other", 0>>, metadata |-> [none |-> TRUE]],
     [variable |-> "entity_data",
      value |-> StrValue(JSONstringify(LegacyArray)),
      time |-> 2, group |-> <<"other", 0>>, metadata |-> [none |-> TRUE]] >>

\* What the channel can deliver once the pass has written its datapoints.
Channel == deviceData \o ForeignPoints

Reverse(s) == [k \in 1..Len(s) |-> s[Len(s) + 1 - k]]

RECURSIVE SetToSeq(_)
SetToSeq(S) ==
  IF S = {} THEN << >>
  ELSE LET m == CHOOSE k \in S : \A j \in S : k <= j
       IN <<m>> \o SetToSeq(S \ {m})

\* The groupings in which the channel delivers the datapoints at the
\* positions S: one group in time order, one group in reverse order, or
\* two groups.
Arrangements(S) ==
  LET idx == SetToSeq(S)
      pts == [k \in 1..Len(idx) |-> Channel[idx[k]]]
  IN {<< [result |-> pts] >>}
       \cup (IF Len(pts) >= 2
               THEN { << [result |-> Reverse(pts)] >>,
                      << [result |-> <<pts[1]>>],
                         [result |-> Tail(pts)] >> }
               ELSE {})

\* The subsets of S of at most n elements.
RECURSIVE SubsetsUpTo(_, _)
SubsetsUpTo(S, n) ==
  IF n <= 0 THEN {{}}
  ELSE LET smaller == SubsetsUpTo(S, n - 1)
       IN smaller \cup {T \cup {x} : T \in smaller, x \in S}

\* window.TagoIO.onRealtime(realtimeData => processRealtimeData(...))
OnRealtime ==
  /\ mode = "production"
  /\ pc = "formatted"
  /\ delivered < MaxDelivered
  /\ \E S \in SubsetsUpTo(1..Len(Channel),
                          Min(MaxDelivery, MaxDelivered - delivered)) :
       /\ delivered' = delivered + Max(1, Cardinality(S))
       /\ \E data \in Arrangements(S) : processRealtimeData(data)
  /\ mode' = mode
  /\ UNCHANGED encVars
  /\ UNCHANGED jobVars
  /\ UNCHANGED hookVars

\* Development mode: setTimeout(() => { processRealtimeData(mockData);
\* setCameraDevices(mockCameras) }, 500).  The fixture holds the records
\* and cameras of the pass.
DevLoad ==
  /\ mode = "development"
  /\ realtimeEventCount = 0
  /\ RealtimeUpdates(entityRecords)   \* a direct array yields no cameras
  /\ cameraDevices' = cameraRecords    \* setCameraDevices(mockCameras)
  /\ UNCHANGED <<mode, delivered>>
  /\ UNCHANGED encVars
  /\ UNCHANGED jobVars
  /\ UNCHANGED hookVars

Init ==
  /\ pc = "input"
  /\ entityRecords \in SeqsUpTo(WidgetPool, MaxRecords)
  /\ cameraRecords \in SeqsUpTo(WidgetCameraPool, MaxCameras)
  /\ currentTime = 0
  /\ deviceData = << >>
  /\ mode \in {"production", "development"}
  /\ WidgetInit
  /\ JobIdle
  /\ HooksIdle

Next == Format \/ OnRealtime \/ DevLoad

Spec == Init /\ [][Next]_vars

(***************************************************************************)
(* The analysis job: showEntityData of "Forward entity data to Device.js". *)
(* jobPc names the SDK call the job is suspended at; a step of the job is  *)
(* the code that runs when that call settles, up to the next await.        *)
(***************************************************************************)
batchSize == 100       \* updateEntityDevice
pageSize == 100        \* fetchDevicesByType
PageLimit == 20        \* fetchDevicesByType: `if (page > 20)`
EntityAmount == 200    \* getEntityData(ENTITY_ID, {amount: 200})

MaxBulk == 190         \* entity records of the largest store
MaxPage == 25          \* pages of one device type the model follows

\* fullPages[t] of a tenant whose every page of type t comes back full
EveryPage == 0 - 1

PoolRecord(id) == CHOOSE r \in EntityPool : r.id = id

\* A record JSON.stringify throws on (a circular reference).
Circular ==
  Rec("e0", "u0", "delta", "venue", "P2", 0, 0) @@ [circular |-> TRUE]

\* A camera scenario that names its camera's hostname.
Scenario ==
  Rec("e9", "u9", "gamma", "camera_scenario", "P1", 60, 70)
    @@ [info_camera_hostname |-> "CAM-A"]

JobCamera ==
  Cam("d1", "cam-a", "axis-camera", "P1", 310, 200) @@ [hostname |-> "cam-a"]

\* A store of n records, every 40th of them too large for one value.
Bulk(n) ==
  [k \in 1..n |-> IF k % 40 = 0 THEN PoolRecord("e4") ELSE PoolRecord("e1")]

\* What the entity store can hold when the job runs.
JobStores ==
  { << >>,
    << PoolRecord("e1") >>,
    << Scenario >>,
    << PoolRecord("e4"), PoolRecord("e1") >>,
    << PoolRecord("e1"), Circular, PoolRecord("e2") >>,
    Bulk(91), Bulk(92), Bulk(MaxBulk) }

\* What an earlier run of the job left on the device.
StalePoints == formatEntityDataForDevice(<< PoolRecord("e2") >>, << >>, 0)

\* The tenants the job is checked on: no camera device, one full page of
\* axis cameras, and a device list whose every page of type "camera" is
\* full.
Tenants ==
  { [t \in DeviceTypes |-> 0],
    [t \in DeviceTypes |-> IF t = "axis-camera" THEN 1 ELSE 0],
    [t \in DeviceTypes |-> IF t = "camera" THEN EveryPage
                           ELSE IF t = "axis-camera" THEN 1 ELSE 0] }

\* JSON.stringify(record) throws
StringifyThrows(record) == "circular" \in DOMAIN record

\* formatEntityDataForDevice(recordList, ...) throws: the forEach callback
\* has no try/catch around JSON.stringify(record).
FormatThrows(recordList) ==
  \E k \in 1..Len(recordList) : StringifyThrows(recordList[k])

\* String.prototype.toLowerCase on the hostnames of the model
ToLowerCase(s) == IF s = "CAM-A" THEN "cam-a" ELSE s

\* hostnameToDeviceId.get(record.info.camera_hostname.toLowerCase()), ""
\* when the map has no such key
DeviceIdOf(record, cams) ==
  LET hits == {k \in 1..Len(cams) :
                 /\ "hostname" \in DOMAIN cams[k]
                 /\ ToLowerCase(cams[k].hostname)
                      = ToLowerCase(record.info_camera_hostname)}
  IN IF hits = {} THEN ""
     ELSE cams[CHOOSE k \in hits : \A j \in hits : j <= k].id

\* The entityResult.forEach of showEntityData: a camera scenario whose
\* hostname is a camera's gets info.camera_device_id, which lengthens its
\* JSON text by ,"camera_device_id":"<id>".
Enriched(record, cams) ==
  IF /\ record.record_type = "camera_scenario"
     /\ "info_camera_hostname" \in DOMAIN record
     /\ DeviceIdOf(record, cams) # ""
    THEN [record EXCEPT !.json_len = @ + 25, !.gzip_len = @ + 20]
           @@ [info_camera_device_id |-> DeviceIdOf(record, cams)]
    ELSE record

\* result.length of Resources.devices.list({page, amount: pageSize}) for
\* the device type t
ResultLength(t, p) ==
  IF fullPages[t] = EveryPage \/ p <= fullPages[t] THEN pageSize ELSE 0

\* if (page > 20) break
PageLimitReached_Never(p) == FALSE
PageLimitReached(p) == p > PageLimit

\* deviceFormattedData.slice(i, i + batchSize)
BatchOf_Overlap(data, from) ==
  SubSeq(data, Min(from, Len(data)) + 1, Min(from + batchSize + 1, Len(data)))
BatchOf(data, from) ==
  SubSeq(data, Min(from, Len(data)) + 1, Min(from + batchSize, Len(data)))

InitJob ==
  /\ pc = "job"
  /\ entityRecords \in JobStores
  /\ cameraRecords \in {<< >>, << JobCamera >>}
  /\ currentTime = 7200123
  /\ deviceData = << >>
  /\ mode = "production"
  /\ WidgetInit
  /\ HooksIdle
  /\ jobPc = "start"
  /\ error = ""
  /\ contextLog = << >>
  /\ fullPages \in Tenants
  /\ page = [t \in DeviceTypes |-> 1]
  /\ listing = [t \in DeviceTypes |-> FALSE]
  /\ deviceBefore \in {<< >>, StalePoints}
  /\ device = deviceBefore
  /\ loopIndex = 0
  /\ totalSent = 0
  /\ inflight = << >>
  /\ calls = << >>

\* The job throws `err` to the catch block of showEntityData.
ThrowToShow(err) ==
  /\ error' = err
  /\ jobPc' = "showCatch"

\* showEntityData up to `await Resources.devices.info(DEVICE_ID)`.
ShowStart ==
  /\ jobPc = "start"
  /\ \E ENTITY_ID \in BOOLEAN, DEVICE_ID \in BOOLEAN :
       IF ~ENTITY_ID
         THEN /\ contextLog' = Append(contextLog, "ENTITY_ID not configured")
              /\ jobPc' = "returned"
              /\ error' = error
         ELSE IF ~DEVICE_ID
           THEN /\ ThrowToShow("DEVICE_ID not set")
                /\ contextLog' = contextLog
           ELSE /\ jobPc' = "devices.info"
                /\ UNCHANGED <<error, contextLog>>
  /\ UNCHANGED <<fullPages, deviceBefore, page, listing, device, loopIndex, totalSent,
                 inflight, calls>>
  /\ UNCHANGED <<encVars, widgetVars>>
  /\ UNCHANGED hookVars

\* Resources.devices.info settles; on success getEntityData is called.
EnsureEntityDevice ==
  /\ jobPc = "devices.info"
  /\ \/ /\ jobPc' = "getEntityData"
        /\ UNCHANGED <<error, contextLog>>
     \/ /\ ThrowToShow("Entity data device not configured")
        /\ contextLog' = Append(contextLog, "Device not found")
  /\ UNCHANGED <<fullPages, deviceBefore, page, listing, device, loopIndex, totalSent,
                 inflight, calls>>
  /\ UNCHANGED <<encVars, widgetVars>>
  /\ UNCHANGED hookVars

\* Resources.entities.getEntityData settles; on success fetchCameraDevices
\* starts the three fetchDevicesByType calls, each of which runs up to its
\* first Resources.devices.list.
GetEntityData ==
  /\ jobPc = "getEntityData"
  /\ \/ /\ jobPc' = "devices.list"
        /\ entityRecords' = SubSeq(entityRecords, 1,
                                   Min(EntityAmount, Len(entityRecords)))
        /\ page' = [t \in DeviceTypes |-> 1]
        /\ listing' = [t \in DeviceTypes |-> TRUE]
        /\ error' = error
     \/ /\ ThrowToShow("getEntityData failed")
        /\ UNCHANGED <<entityRecords, page, listing>>
  /\ UNCHANGED <<contextLog, fullPages, deviceBefore, device, loopIndex, totalSent,
                 inflight, calls>>
  /\ UNCHANGED <<pc, cameraRecords, currentTime, deviceData>>
  /\ UNCHANGED widgetVars
  /\ UNCHANGED hookVars

\* One Resources.devices.list call of fetchDevicesByType(t) settles: the
\* rest of the loop body, and the next call if the loop goes on.  A
\* rejection rejects the Promise.all of fetchCameraDevices.
FetchDevicesByType(t) ==
  /\ jobPc = "devices.list"
  /\ listing[t]
  /\ page[t] <= MaxPage
  /\ \/ LET hasMore == ResultLength(t, page[t]) = pageSize
        IN /\ page' = [page EXCEPT ![t] = @ + 1]
           /\ listing' = [listing EXCEPT
                            ![t] = hasMore /\ ~PageLimitReached(page[t] + 1)]
           /\ UNCHANGED <<jobPc, error>>
     \/ /\ ThrowToShow("devices.list failed")
        /\ UNCHANGED <<page, listing>>
  /\ UNCHANGED <<contextLog, fullPages, deviceBefore, device, loopIndex, totalSent,
                 inflight, calls>>
  /\ UNCHANGED <<encVars, widgetVars>>
  /\ UNCHANGED hookVars

\* Promise.all resolves: the rest of fetchCameraDevices, the enrichment of
\* the camera scenarios, and updateEntityDevice up to
\* `await Resources.devices.emptyDeviceData(deviceID)`.
FetchCameraDevices ==
  /\ jobPc = "devices.list"
  /\ \A t \in DeviceTypes : ~listing[t]
  /\ entityRecords' = [k \in 1..Len(entityRecords) |->
                         Enriched(entityRecords[k], cameraRecords)]
  /\ jobPc' = "emptyDeviceData"
  /\ UNCHANGED <<error, contextLog, fullPages, deviceBefore, page,
                 listing, device,
                 loopIndex, totalSent, inflight, calls>>
  /\ UNCHANGED <<pc, cameraRecords, currentTime, deviceData>>
  /\ UNCHANGED widgetVars
  /\ UNCHANGED hookVars

\* A clear that reports success without deleting anything.
ClearAllEntityData_Skip ==
  /\ jobPc = "emptyDeviceData"
  /\ jobPc' = "format"
  /\ UNCHANGED <<error, contextLog, fullPages, deviceBefore, page,
                 listing, device, loopIndex, totalSent, inflight, calls>>
  /\ UNCHANGED <<encVars, widgetVars>>
  /\ UNCHANGED hookVars

\* emptyDeviceData settles.  clearAllEntityData catches a rejection, logs
\* it and returns normally; what a rejected call has deleted is not known.
ClearAllEntityData ==
  /\ jobPc = "emptyDeviceData"
  /\ \/ /\ device' = << >>
        /\ contextLog' = contextLog
     \/ /\ device' \in {device, << >>}
        /\ contextLog' = Append(contextLog, "Error during data clearing")
  /\ jobPc' = "format"
  /\ UNCHANGED <<error, fullPages, deviceBefore, page, listing, loopIndex, totalSent,
                 inflight, calls>>
  /\ UNCHANGED <<encVars, widgetVars>>
  /\ UNCHANGED hookVars

\* updateEntityDevice from the return of clearAllEntityData to the loop:
\* formatEntityDataForDevice, `let totalSent = 0`, `let i = 0`.
FormatData ==
  /\ jobPc = "format"
  /\ IF FormatThrows(entityRecords)
       THEN /\ error' = "JSON.stringify failed"
            /\ jobPc' = "updateCatch"
            /\ UNCHANGED <<deviceData, loopIndex, totalSent>>
       ELSE /\ deviceData' = formatEntityDataForDevice(entityRecords,
                                                       cameraRecords,
                                                       currentTime)
            /\ loopIndex' = 0
            /\ totalSent' = 0
            /\ jobPc' = "loop"
            /\ error' = error
  /\ UNCHANGED <<contextLog, fullPages, deviceBefore, page, listing, device, inflight,
                 calls>>
  /\ UNCHANGED <<pc, entityRecords, cameraRecords, currentTime>>
  /\ UNCHANGED widgetVars
  /\ UNCHANGED hookVars

\* The loop test `i < deviceFormattedData.length` holds: the batch is
\* sliced and sendDeviceData is called with it.
SendBatch ==
  /\ jobPc = "loop"
  /\ loopIndex < Len(deviceData)
  /\ inflight' = Append(inflight, BatchOf(deviceData, loopIndex))
  /\ calls' = Append(calls, [from |-> loopIndex,
                             length |-> Len(BatchOf(deviceData, loopIndex))])
  /\ jobPc' = "sendDeviceData"
  /\ UNCHANGED <<error, contextLog, fullPages, deviceBefore, page,
                 listing, device,
                 loopIndex, totalSent>>
  /\ UNCHANGED <<encVars, widgetVars>>
  /\ UNCHANGED hookVars

\* sendDeviceData resolves: the device holds the batch; `totalSent +=
\* batch.length`, `i += batchSize`.
BatchSent ==
  /\ jobPc = "sendDeviceData"
  /\ device' = device \o Head(inflight)
  /\ totalSent' = totalSent + Len(Head(inflight))
  /\ loopIndex' = loopIndex + batchSize
  /\ inflight' = Tail(inflight)
  /\ jobPc' = "loop"
  /\ UNCHANGED <<error, contextLog, fullPages, deviceBefore, page,
                 listing, calls>>
  /\ UNCHANGED <<encVars, widgetVars>>
  /\ UNCHANGED hookVars

\* A rejected sendDeviceData after which the loop tries the batch again.
BatchFailed_Retry ==
  /\ jobPc = "sendDeviceData"
  /\ inflight' = Tail(inflight)
  /\ error' = "sendDeviceData failed"
  /\ jobPc' = "loop"
  /\ UNCHANGED <<contextLog, fullPages, deviceBefore, page, listing, device,
                 loopIndex, totalSent, calls>>
  /\ UNCHANGED <<encVars, widgetVars>>
  /\ UNCHANGED hookVars

\* sendDeviceData rejects; the device may have stored none, the first or
\* all of the datapoints of the batch.
BatchFailed ==
  /\ jobPc = "sendDeviceData"
  /\ \E n \in {0, 1, Len(Head(inflight))} :
       device' = device \o SubSeq(Head(inflight), 1, n)
  /\ inflight' = Tail(inflight)
  /\ error' = "sendDeviceData failed"
  /\ jobPc' = "updateCatch"
  /\ UNCHANGED <<contextLog, fullPages, deviceBefore, page, listing, loopIndex, totalSent,
                 calls>>
  /\ UNCHANGED <<encVars, widgetVars>>
  /\ UNCHANGED hookVars

\* The loop test fails: the summary is logged, updateEntityDevice returns
\* and showEntityData logs the result and ends.
UpdateReturned ==
  /\ jobPc = "loop"
  /\ loopIndex >= Len(deviceData)
  /\ jobPc' = "done"
  /\ UNCHANGED <<error, contextLog, fullPages, deviceBefore, page,
                 listing, device,
                 loopIndex, totalSent, inflight, calls>>
  /\ UNCHANGED <<encVars, widgetVars>>
  /\ UNCHANGED hookVars

\* catch (error) of updateEntityDevice: log and `throw error`.
UpdateCatch ==
  /\ jobPc = "updateCatch"
  /\ contextLog' = Append(contextLog, "Error in updateEntityDevice")
  /\ jobPc' = "showCatch"
  /\ UNCHANGED <<error, fullPages, deviceBefore, page, listing, device, loopIndex,
                 totalSent, inflight, calls>>
  /\ UNCHANGED <<encVars, widgetVars>>
  /\ UNCHANGED hookVars

\* catch (error) of showEntityData: log and `throw error`.
ShowCatch ==
  /\ jobPc = "showCatch"
  /\ contextLog' = Append(contextLog, "Error in Entity Data Widget Analysis")
  /\ jobPc' = "thrown"
  /\ UNCHANGED <<error, fullPages, deviceBefore, page, listing, device, loopIndex,
                 totalSent, inflight, calls>>
  /\ UNCHANGED <<encVars, widgetVars>>
  /\ UNCHANGED hookVars

NextJob ==
  \/ ShowStart
  \/ EnsureEntityDevice
  \/ GetEntityData
  \/ \E t \in DeviceTypes : FetchDevicesByType(t)
  \/ FetchCameraDevices
  \/ ClearAllEntityData
  \/ FormatData
  \/ SendBatch
  \/ BatchSent
  \/ BatchFailed
  \/ UpdateReturned
  \/ UpdateCatch
  \/ ShowCatch

SpecJob == InitJob /\ [][NextJob]_vars

\* showEntityData has returned or thrown.
JobSettled == jobPc \in {"done", "returned", "thrown"}

(***************************************************************************)
(* Properties of the encoding pass (checked under SpecEnc).                *)
(***************************************************************************)
\* String concatenation: two adjacent slices of one text join into the
\* slice that covers both; anything else is text no encoder produced.
StrConcat(s, t) ==
  IF StrLen(s) = 0 THEN t
  ELSE IF StrLen(t) = 0 THEN s
  ELSE IF s.kind = t.kind /\ s.kind # "garbage" /\ s.of = t.of /\ s.hi = t.lo
    THEN [kind |-> s.kind, of |-> s.of, lo |-> s.lo, hi |-> t.hi]
    ELSE [kind |-> "garbage", of |-> s.of, lo |-> 0, hi |-> StrLen(s) + StrLen(t)]

RECURSIVE Digits(_)
Digits(n) == IF n < 10 THEN 1 ELSE 1 + Digits(n \div 10)

\* The size of a value on the channel: the length of a string, the length
\* of the JSON text of a number or boolean.
ValueSize(v) ==
  IF IsStr(v) THEN StrLen(v.str)
  ELSE IF DOMAIN v = {"num"} THEN Digits(v.num)
  ELSE IF v.bool THEN 4 ELSE 5

\* Positions in deviceData of the datapoints that carry record number i
\* (zero-based), whole or in chunks.
RecordPointsAt(i) ==
  {k \in 1..Len(deviceData) :
     /\ deviceData[k].variable \in {"entity_record", "entity_record_chunk"}
     /\ deviceData[k].metadata.index = i}

ChunkPointsAt(i) ==
  {k \in RecordPointsAt(i) : deviceData[k].variable = "entity_record_chunk"}

\* The serialized and the compressed+encoded text of record number i.
SerializedAt(i) == JSONstringify(entityRecords[i + 1])
EncodedAt(i) == compressToBase64(SerializedAt(i))

RecordNumbers == 0..(Len(entityRecords) - 1)

\* C2: the encoding kind follows the thresholds, first match wins: a
\* serialized length <= MAX_VALUE_SIZE gives exactly one json datapoint
\* whose value is the serialized string; else an encoded length <=
\* MAX_VALUE_SIZE gives exactly one gzip_base64 datapoint whose value is the
\* encoded string; else every datapoint of the record is gzip_base64_chunked.
C2_EncodingSelection ==
  pc = "formatted" =>
    \A i \in RecordNumbers :
      LET P == RecordPointsAt(i)
      IN IF StrLen(SerializedAt(i)) <= MAX_VALUE_SIZE THEN
           \E k \in P :
             /\ P = {k}
             /\ deviceData[k].variable = "entity_record"
             /\ deviceData[k].metadata.encoding = "json"
             /\ deviceData[k].value = StrValue(SerializedAt(i))
         ELSE IF StrLen(EncodedAt(i)) <= MAX_VALUE_SIZE THEN
           \E k \in P :
             /\ P = {k}
             /\ deviceData[k].variable = "entity_record"
             /\ deviceData[k].metadata.encoding = "gzip_base64"
             /\ deviceData[k].value = StrValue(EncodedAt(i))
         ELSE
           /\ P # {}
           /\ \A k \in P :
                deviceData[k].metadata.encoding = "gzip_base64_chunked"

\* A pass with a record serialized to exactly MAX_VALUE_SIZE characters and
\* a record that fits only compressed, at exactly MAX_VALUE_SIZE characters.
C2_Witness ==
  /\ pc = "formatted"
  /\ \E i \in RecordNumbers : StrLen(SerializedAt(i)) = MAX_VALUE_SIZE
  /\ \E i \in RecordNumbers :
       /\ StrLen(SerializedAt(i)) > MAX_VALUE_SIZE
       /\ StrLen(EncodedAt(i)) = MAX_VALUE_SIZE
       /\ \E k \in RecordPointsAt(i) :
            deviceData[k].metadata.encoding = "gzip_base64"

\* C3: no datapoint of a pass, whatever its variable, has a value larger
\* than MAX_VALUE_SIZE.
C3_SingleValueCeiling ==
  pc = "formatted" =>
    \A k \in 1..Len(deviceData) :
      ValueSize(deviceData[k].value) <= MAX_VALUE_SIZE

\* C4: the chunks of a chunked record have chunk_index exactly
\* 0..total_chunks-1, once each, one chunk_id and one total_chunks, and
\* total_chunks = ceil(len(encoded) / CHUNK_SIZE).
C4_ChunkCompleteness ==
  pc = "formatted" =>
    \A i \in RecordNumbers :
      LET P == ChunkPointsAt(i)
          total == Ceil(StrLen(EncodedAt(i)), CHUNK_SIZE)
      IN P # {} =>
           /\ Cardinality(P) = total
           /\ {deviceData[k].metadata.chunk_index : k \in P} = 0..(total - 1)
           /\ \A k \in P : deviceData[k].metadata.total_chunks = total
           /\ \A j, k \in P :
                deviceData[j].metadata.chunk_id = deviceData[k].metadata.chunk_id

\* A pass with a record cut into three chunks, the last one short.
C4_Witness ==
  /\ pc = "formatted"
  /\ \E i \in RecordNumbers :
       /\ Cardinality(ChunkPointsAt(i)) = 3
       /\ StrLen(EncodedAt(i)) % CHUNK_SIZE # 0

\* The chunk of record number i with chunk_index j.
ChunkValueAt(i, j) ==
  LET k == CHOOSE k \in ChunkPointsAt(i) :
             deviceData[k].metadata.chunk_index = j
  IN deviceData[k].value.str

\* The concatenation of chunks 0..j of record number i.
RECURSIVE ChunksJoined(_, _)
ChunksJoined(i, j) ==
  IF j = 0 THEN ChunkValueAt(i, 0)
  ELSE StrConcat(ChunksJoined(i, j - 1), ChunkValueAt(i, j))

\* C5: the chunk values of a chunked record are contiguous,
\* non-overlapping substrings of the encoded string, each non-empty and at
\* most CHUNK_SIZE long, and joined in chunk_index order they are the
\* encoded string.
C5_ChunkCoverage ==
  pc = "formatted" =>
    \A i \in RecordNumbers :
      LET n == Cardinality(ChunkPointsAt(i))
          enc == EncodedAt(i)
      IN n > 0 =>
           /\ \A j \in 0..(n - 1) :
                LET c == ChunkValueAt(i, j)
                IN /\ c.kind = enc.kind /\ c.of = enc.of
                   /\ StrLen(c) > 0 /\ StrLen(c) <= CHUNK_SIZE
                   /\ c.lo = (IF j = 0 THEN enc.lo ELSE ChunkValueAt(i, j - 1).hi)
                   /\ j = n - 1 => c.hi = enc.hi
           /\ ChunksJoined(i, n - 1) = enc

\* A pass with a chunked record whose encoded length is an exact multiple
\* of CHUNK_SIZE.
C5_Witness ==
  /\ pc = "formatted"
  /\ \E i \in RecordNumbers :
       /\ ChunkPointsAt(i) # {}
       /\ StrLen(EncodedAt(i)) = 2 * CHUNK_SIZE
       /\ StrLen(ChunkValueAt(i, 1)) = CHUNK_SIZE

\* C6: the datapoints of one pass have pairwise distinct times: their
\* offsets from the base time increase strictly in emission order.
C6_TimestampUniqueness ==
  pc = "formatted" =>
    \A j, k \in 1..Len(deviceData) :
      j < k =>
        /\ deviceData[j].time # deviceData[k].time
        /\ deviceData[j].time - currentTime < deviceData[k].time - currentTime

\* A pass that emits whole records, chunks, a camera and the summary.
C6_Witness ==
  /\ pc = "formatted"
  /\ \A v \in {"entity_record", "entity_record_chunk", "camera_device",
               "parks_count", "data_loaded"} :
       \E k \in 1..Len(deviceData) : deviceData[k].variable = v

(***************************************************************************)
(* Properties of the widget's decoder (checked under Spec).                *)
(***************************************************************************)
\* The datapoints of a delivery, over all its groups.
PointsIn(data) ==
  UNION {{data[g].result[k] : k \in 1..Len(data[g].result)} :
           g \in 1..Len(data)}

\* The last call of processRealtimeData was a realtime delivery.
Delivered == mode = "production" /\ realtimeEventCount > 0

\* Every datapoint the pass emitted for record number i is in `data`.
WholeIn(i, data) ==
  \A k \in RecordPointsAt(i) : deviceData[k] \in PointsIn(data)

\* Some but not all chunks of record number i are in `data`.
PartialIn(i, data) ==
  /\ \E k \in ChunkPointsAt(i) : deviceData[k] \in PointsIn(data)
  /\ \E k \in ChunkPointsAt(i) : deviceData[k] \notin PointsIn(data)

Yielded(record, recs) == \E k \in 1..Len(recs) : recs[k] = record

\* C1: in each of the three encoding kinds, the datapoints the pass emits
\* for a record R, fed to processRealtimeData, yield a record equal to R.
C1_RoundTrip ==
  Delivered =>
    \A i \in RecordNumbers :
      WholeIn(i, realtimeData) => Yielded(entityRecords[i + 1], records)

\* C7: a chunk group is reassembled into its record exactly when all its
\* total_chunks members have been seen.
C7_GroupReassembly ==
  Delivered =>
    \A i \in RecordNumbers :
      ChunkPointsAt(i) # {} =>
        (Yielded(entityRecords[i + 1], records) <=> WholeIn(i, realtimeData))

\* C8: a delivery that lacks a chunk of one record omits that record and
\* yields every other record whose datapoints are all present, whole or
\* chunked.
C8_PartialBatch ==
  Delivered =>
    \A i \in RecordNumbers :
      PartialIn(i, realtimeData) =>
        /\ ~Yielded(entityRecords[i + 1], records)
        /\ \A j \in RecordNumbers :
             (entityRecords[j + 1] # entityRecords[i + 1]
                /\ WholeIn(j, realtimeData))
               => Yielded(entityRecords[j + 1], records)

\* C9: when one delivery brings some chunks of a record and the next one
\* brings the missing chunks, the record is in entityData after the second.
C9_DeferredGroupCompleted ==
  [][ (Delivered /\ realtimeEventCount' = realtimeEventCount + 1) =>
        \A i \in RecordNumbers :
          ( /\ PartialIn(i, realtimeData)
            /\ PartialIn(i, realtimeData')
            /\ \A k \in ChunkPointsAt(i) :
                 deviceData[k] \in PointsIn(realtimeData)
                                     \cup PointsIn(realtimeData') )
            => Yielded(entityRecords[i + 1], entityData') ]_vars

\* A record-bearing datapoint of the delivery whose value fails to parse.
CorruptIn(data) ==
  \E dp \in PointsIn(data) :
    /\ dp.variable = "entity_record"
    /\ dp.value.str.kind = "garbage"

\* C10: a datapoint that fails to parse costs only itself: every valid
\* record of the same delivery is still produced.
C10_DecodeFailureIsolation ==
  (Delivered /\ CorruptIn(realtimeData)) =>
    \A i \in RecordNumbers :
      (ChunkPointsAt(i) = {} /\ WholeIn(i, realtimeData))
        => Yielded(entityRecords[i + 1], records)

(***************************************************************************)
(* Properties of the analysis job (checked under SpecJob).                 *)
(***************************************************************************)
\* updateEntityDevice was entered and has returned or thrown.
UpdateErrors == {"JSON.stringify failed", "sendDeviceData failed"}
UpdateEnded ==
  \/ jobPc = "done"
  \/ jobPc = "thrown" /\ error \in UpdateErrors

\* The device holds a datapoint of this pass for `record`.
PushedRecord(record) ==
  \E m \in 1..Len(device) :
    /\ device[m].variable \in {"entity_record", "entity_record_chunk"}
    /\ device[m].group = GroupId(currentTime)
    /\ device[m].metadata.unique_id = record.unique_id
    /\ device[m].metadata.name = record.name

\* C11: when serializing one record of the batch fails, only that record
\* is lost: once updateEntityDevice has ended without a write failure,
\* every record of the batch that can be serialized is on the device.
C11_SerializationIsolation ==
  (UpdateEnded /\ error # "sendDeviceData failed")
    => \A k \in 1..Len(entityRecords) :
         ~StringifyThrows(entityRecords[k])
           => PushedRecord(entityRecords[k])

\* C12: a run of updateEntityDevice that is at its first sendDeviceData call
\* has deleted every datapoint the device held before, and after a
\* successful run the device holds exactly the new batch.
C12_FullRefreshOrdering ==
  /\ (jobPc = "sendDeviceData" /\ Len(calls) = 1) => device = << >>
  /\ jobPc = "done" => device = deviceData

\* C13 as stated: after updateEntityDevice throws, the device still holds
\* the datapoints it held before the run started.
C13_StaleDataStays ==
  (jobPc = "thrown" /\ error \in UpdateErrors) => device = deviceBefore

\* The line clearAllEntityData logs when emptyDeviceData rejects is there.
ClearFailed ==
  \E k \in 1..Len(contextLog) : contextLog[k] = "Error during data clearing"

\* C13, amended: after updateEntityDevice throws, the device holds what the
\* clear left (nothing, unless emptyDeviceData itself failed) followed by
\* the datapoints of the new batch written before the failure, in emission
\* order (none after an encoding failure): the old data is gone.
C13_AbortLeavesPartialRefresh ==
  (jobPc = "thrown" /\ error \in UpdateErrors)
    => \E left \in {<< >>, deviceBefore} :
         /\ ~ClearFailed => left = << >>
         /\ Len(left) <= Len(device)
         /\ Len(device) - Len(left) <= Len(deviceData)
         /\ Len(device) - Len(left) >= totalSent
         /\ device = left \o SubSeq(deviceData, 1, Len(device) - Len(left))
         /\ error = "JSON.stringify failed" => device = left

\* The clear succeeded, the second batch failed half-way: the device holds
\* the first batch and one datapoint of the second, and no old datapoint.
C13_Witness ==
  /\ jobPc = "thrown"
  /\ error = "sendDeviceData failed"
  /\ deviceBefore # << >>
  /\ ~ClearFailed
  /\ Len(device) = batchSize + 1
  /\ device # deviceBefore

\* The last n lines of the log.
LastLines(n) == SubSeq(contextLog, Len(contextLog) - n + 1, Len(contextLog))

\* C14: when a sendDeviceData call fails, the failed batch is not sent
\* again and no later batch is sent; updateEntityDevice logs the error and
\* rethrows it, showEntityData logs it and rethrows it, and the job ends
\* thrown, with that error.
C14_WriteFailure ==
  error = "sendDeviceData failed"
    => /\ jobPc \in {"updateCatch", "showCatch", "thrown"}
       /\ inflight = << >>
       /\ \A a, b \in 1..Len(calls) : a < b => calls[a].from < calls[b].from
       /\ calls[Len(calls)].from = loopIndex
       /\ jobPc = "showCatch"
            => /\ Len(contextLog) >= 1
               /\ LastLines(1) = << "Error in updateEntityDevice" >>
       /\ jobPc = "thrown"
            => /\ Len(contextLog) >= 2
               /\ LastLines(2) = << "Error in updateEntityDevice",
                                    "Error in Entity Data Widget Analysis" >>

\* The second of three batches failed: the job has thrown after two calls.
C14_Witness ==
  /\ jobPc = "thrown"
  /\ error = "sendDeviceData failed"
  /\ Len(calls) = 2
  /\ Len(deviceData) > 2 * batchSize

\* The concatenation of the batches of the first n sendDeviceData calls.
SentSoFar(n) ==
  IF n = 0 THEN << >>
  ELSE SubSeq(deviceData, 1, calls[n].from + calls[n].length)

\* C15: updateEntityDevice pushes the datapoints in consecutive batches of
\* at most batchSize, one sendDeviceData call at a time; over a successful
\* run every datapoint is sent exactly once, in emission order.
C15_SequentialBatches ==
  /\ Len(inflight) <= 1
  /\ \A k \in 1..Len(calls) :
       /\ calls[k].from = (k - 1) * batchSize
       /\ calls[k].length >= 1
       /\ calls[k].length <= batchSize
       /\ calls[k].from + calls[k].length <= Len(deviceData)
       /\ k < Len(calls) => calls[k].length = batchSize
  /\ jobPc = "sendDeviceData"
       => /\ Len(inflight) = 1
          /\ inflight[1] = SubSeq(deviceData, loopIndex + 1,
                                  loopIndex + calls[Len(calls)].length)
          /\ totalSent = loopIndex
  /\ jobPc = "done"
       => /\ SentSoFar(Len(calls)) = deviceData
          /\ totalSent = Len(deviceData)
          /\ device \in {deviceData, deviceBefore \o deviceData}

\* A successful run of three batches, the last of them a single datapoint.
C15_Witness ==
  /\ jobPc = "done"
  /\ Len(calls) = 3
  /\ calls[3].length = 1
  /\ device = deviceData

\* The data_loaded marker of the pass: its last datapoint.
Marker == deviceData[Len(deviceData)]

\* C16: data_loaded is the last datapoint of the pass and has its largest
\* time, so the device holds the marker of the pass only after every other
\* datapoint of the pass.
C16_MarkerLast ==
  deviceData # << >>
    => /\ Marker.variable = "data_loaded"
       /\ \A k \in 1..(Len(deviceData) - 1) :
            /\ deviceData[k].variable # "data_loaded"
            /\ deviceData[k].time < Marker.time
       /\ \A m \in 1..Len(device) :
            device[m] = Marker
              => \A k \in 1..(Len(deviceData) - 1) :
                   \E j \in 1..(m - 1) : device[j] = deviceData[k]

\* The marker went out alone in the second batch, after the 100 datapoints
\* of the first.
C16_Witness ==
  /\ jobPc = "done"
  /\ Len(calls) = 2
  /\ calls[2].length = 1
  /\ device[Len(device)] = Marker
  /\ Marker.variable = "data_loaded"

(***************************************************************************)
(* Termination of the analysis job.                                        *)
(***************************************************************************)
\* How far the job is from its end: the stage it is in, and within the
\* two loops the pages that can still be asked for and the datapoints that
\* are still to be sent.
Stage ==
  CASE jobPc = "start" -> 9
    [] jobPc = "devices.info" -> 8
    [] jobPc = "getEntityData" -> 7
    [] jobPc = "devices.list" -> 6
    [] jobPc = "emptyDeviceData" -> 5
    [] jobPc = "format" -> 4
    [] jobPc \in {"loop", "sendDeviceData"} -> 3
    [] jobPc = "updateCatch" -> 2
    [] jobPc = "showCatch" -> 1
    [] OTHER -> 0

StepsLeft ==
  CASE jobPc = "devices.list" ->
         LET open == {t \in DeviceTypes : listing[t]}
             left[S \in SUBSET open] ==
               IF S = {} THEN 0
               ELSE LET t == CHOOSE u \in S : TRUE
                    IN (PageLimit + 1 - page[t]) + left[S \ {t}]
         IN left[open]
    [] jobPc = "loop" -> 2 * Max(0, Len(deviceData) - loopIndex) + 1
    [] jobPc = "sendDeviceData" -> 2 * Max(0, Len(deviceData) - loopIndex)
    [] OTHER -> 0

\* C19: a run of showEntityData always ends: every step of the job brings
\* it nearer to its return or throw (the stage goes down, or the steps left
\* in the stage do, and neither goes below zero), a pending list call is
\* always for a page within the limit, and fetchDevicesByType never asks
\* for more than PageLimit pages of a device type, even when every page
\* comes back full.
C19_PassEnds ==
  /\ [](\A t \in DeviceTypes :
          /\ page[t] <= PageLimit + 1
          /\ listing[t] => page[t] <= PageLimit)
  /\ [](StepsLeft >= 0)
  /\ [][\/ Stage' < Stage
        \/ Stage' = Stage /\ StepsLeft' < StepsLeft]_vars

\* The job has come to its end although every page of type "camera" was
\* full: the loop stopped at the page limit.
C19_Witness ==
  /\ jobPc = "done"
  /\ fullPages["camera"] = EveryPage
  /\ page["camera"] = PageLimit + 1
  /\ ~listing["camera"]

(***************************************************************************)
(* Properties of the widget state (checked under Spec).                    *)
(***************************************************************************)
\* C17: processRealtimeData rebuilds its record and camera accumulators on
\* every delivery; after a delivery that yields at least one record,
\* entityData is exactly the records parsed from that delivery, and it is
\* left alone by a delivery that yields none.
C17_NoCrossBatchMerge ==
  [][realtimeEventCount' # realtimeEventCount
       => /\ records' = ProcessedRealtime(realtimeData').records
          /\ cameras' = ProcessedRealtime(realtimeData').cameras
          /\ entityData' = IF Len(records') > 0 THEN records'
                                               ELSE entityData]_vars

\* A second delivery has replaced the record of the first by its own.
C17_Witness ==
  /\ mode = "production"
  /\ realtimeEventCount = 2
  /\ Len(entityRecords) = 2
  /\ entityRecords[1].json_len <= MAX_VALUE_SIZE
  /\ entityRecords[2].json_len <= MAX_VALUE_SIZE
  /\ PointsIn(realtimeData) = {deviceData[2]}
  /\ Len(entityData) = 1
  /\ entityData = records

\* The orders in which the datapoints of one group can arrive.
Reorderings(result) ==
  { [k \in 1..Len(result) |-> result[p[k]]] :
      p \in Permutations(1..Len(result)) }

\* C18: the records and cameras the widget shows do not depend on the
\* order in which the datapoints of a delivery arrive: every reordering of
\* the delivered datapoints yields the same sequences.
C18_ArrivalOrderIndependence ==
  (Delivered /\ Len(realtimeData) = 1)
    => \A result \in Reorderings(realtimeData[1].result) :
         /\ ProcessedRealtime(<< [result |-> result] >>).records = records
         /\ ProcessedRealtime(<< [result |-> result] >>).cameras = cameras

\* C20 as stated: realtimeEventCount goes up by exactly one on every
\* delivery to the onRealtime callback, and nothing else changes it.
C20_CountsRealtimeDeliveries ==
  [][IF delivered' # delivered
       THEN realtimeEventCount' = realtimeEventCount + 1
       ELSE realtimeEventCount' = realtimeEventCount]_vars

\* C20, amended: realtimeEventCount counts the calls of processRealtimeData.
\* In production every onRealtime delivery raises it by exactly one, whether
\* or not the delivery yields records, and nothing else changes it; in
\* development mode the one mock load raises it from 0 to 1.
C20_CountsProcessedUpdates ==
  [][/\ mode = "production"
          => IF delivered' # delivered
               THEN realtimeEventCount' = realtimeEventCount + 1
               ELSE realtimeEventCount' = realtimeEventCount
     /\ mode = "development"
          => \/ realtimeEventCount' = realtimeEventCount
             \/ /\ realtimeEventCount = 0
                /\ realtimeEventCount' = 1
                /\ realtimeData' = entityRecords]_vars

\* Two deliveries have been counted; the second yielded no record and left
\* the entityData of the first in place.
C20_Witness ==
  /\ mode = "production"
  /\ realtimeEventCount = 2
  /\ records = << >>
  /\ entityData # << >>

(***************************************************************************)
(* useSensorFilters of the People-Counter-Comparison widget: five filters  *)
(* world > building > floor > designation > room type, and selectedDate.   *)
(***************************************************************************)
\* What a filter action may be called with: '' (the "All" option) or a name.
FilterValues == {"", "A", "B"}
\* The days the date input offers.
Dates == {"2026-10-30", Today}

\* The `filters` object the hook returns.
filters ==
  [selectedWorld |-> selectedWorld,
   selectedBuilding |-> selectedBuilding,
   selectedFloor |-> selectedFloor,
   selectedDesignation |-> selectedDesignation,
   selectedRoomType |-> selectedRoomType,
   selectedDate |-> selectedDate]

FilterCalled(name, arg) ==
  filterCall' = [name |-> name, arg |-> arg, found |-> filters]

FilterFrame ==
  UNCHANGED <<encVars, widgetVars, jobVars, sensorVars, dayVars, waterVars>>

setSelectedWorld(world) ==
  /\ selectedWorld' = world
  /\ selectedBuilding' = ""
  /\ selectedFloor' = ""
  /\ selectedDesignation' = ""
  /\ selectedRoomType' = ""
  /\ UNCHANGED selectedDate
  /\ FilterCalled("setSelectedWorld", world)
  /\ FilterFrame

setSelectedBuilding(building) ==
  /\ selectedBuilding' = building
  /\ selectedFloor' = ""
  /\ selectedDesignation' = ""
  /\ selectedRoomType' = ""
  /\ UNCHANGED <<selectedWorld, selectedDate>>
  /\ FilterCalled("setSelectedBuilding", building)
  /\ FilterFrame

\* setSelectedFloor without the reset of the room type.
setSelectedFloor_KeepRoomType(floor) ==
  /\ selectedFloor' = floor
  /\ selectedDesignation' = ""
  /\ UNCHANGED <<selectedWorld, selectedBuilding, selectedRoomType,
                 selectedDate>>
  /\ FilterCalled("setSelectedFloor", floor)
  /\ FilterFrame

setSelectedFloor(floor) ==
  /\ selectedFloor' = floor
  /\ selectedDesignation' = ""
  /\ selectedRoomType' = ""
  /\ UNCHANGED <<selectedWorld, selectedBuilding, selectedDate>>
  /\ FilterCalled("setSelectedFloor", floor)
  /\ FilterFrame

setSelectedDesignation(designation) ==
  /\ selectedDesignation' = designation
  /\ selectedRoomType' = ""
  /\ UNCHANGED <<selectedWorld, selectedBuilding, selectedFloor,
                 selectedDate>>
  /\ FilterCalled("setSelectedDesignation", designation)
  /\ FilterFrame

setSelectedRoomType(roomType) ==
  /\ selectedRoomType' = roomType
  /\ UNCHANGED <<selectedWorld, selectedBuilding, selectedFloor,
                 selectedDesignation, selectedDate>>
  /\ FilterCalled("setSelectedRoomType", roomType)
  /\ FilterFrame

\* The raw state setter of selectedDate, handed out as an action.
setSelectedDate(date) ==
  /\ selectedDate' = date
  /\ UNCHANGED <<selectedWorld, selectedBuilding, selectedFloor,
                 selectedDesignation, selectedRoomType>>
  /\ FilterCalled("setSelectedDate", date)
  /\ FilterFrame

clearAllFilters ==
  /\ selectedWorld' = ""
  /\ selectedBuilding' = ""
  /\ selectedFloor' = ""
  /\ selectedDesignation' = ""
  /\ selectedRoomType' = ""
  /\ UNCHANGED selectedDate
  /\ FilterCalled("clearAllFilters", "")
  /\ FilterFrame

\* Every hook after its first render.
InitHooks ==
  /\ pc = "hooks"
  /\ entityRecords = << >>
  /\ cameraRecords = << >>
  /\ currentTime = 0
  /\ deviceData = << >>
  /\ mode = "production"
  /\ WidgetInit
  /\ JobIdle
  /\ HooksIdle

NextFilters ==
  \/ \E world \in FilterValues : setSelectedWorld(world)
  \/ \E building \in FilterValues : setSelectedBuilding(building)
  \/ \E floor \in FilterValues : setSelectedFloor(floor)
  \/ \E designation \in FilterValues : setSelectedDesignation(designation)
  \/ \E roomType \in FilterValues : setSelectedRoomType(roomType)
  \/ \E date \in Dates : setSelectedDate(date)
  \/ clearAllFilters

SpecFilters == InitHooks /\ [][NextFilters]_vars

\* The hierarchy, top first, and the level a cascading setter works at.
Hierarchy == <<"selectedWorld", "selectedBuilding", "selectedFloor",
               "selectedDesignation", "selectedRoomType">>
LevelOf(name) ==
  CASE name = "setSelectedWorld" -> 1
    [] name = "setSelectedBuilding" -> 2
    [] name = "setSelectedFloor" -> 3
    [] name = "setSelectedDesignation" -> 4
    [] name = "setSelectedRoomType" -> 5
    [] OTHER -> 0

\* C21: after a filter at one level of world > building > floor >
\* designation > room type is set, that filter holds the value given, every
\* filter below it is '', and every filter above it and selectedDate are
\* what they were before the call.
C21_CascadingReset ==
  LevelOf(filterCall.name) > 0 =>
    /\ filters[Hierarchy[LevelOf(filterCall.name)]] = filterCall.arg
    /\ \A k \in 1..5 :
         /\ k > LevelOf(filterCall.name) => filters[Hierarchy[k]] = ""
         /\ k < LevelOf(filterCall.name) =>
              filters[Hierarchy[k]] = filterCall.found[Hierarchy[k]]
    /\ selectedDate = filterCall.found.selectedDate

\* A floor is set while a world, a building, a designation and a room type
\* are selected and the date is not today's.
C21_Witness ==
  /\ filterCall.name = "setSelectedFloor"
  /\ filterCall.arg = "B"
  /\ filterCall.found.selectedWorld = "A"
  /\ filterCall.found.selectedBuilding = "B"
  /\ filterCall.found.selectedDesignation = "A"
  /\ filterCall.found.selectedRoomType = "B"
  /\ filterCall.found.selectedDate # Today

(***************************************************************************)
(* useSelectedSensors of the People-Counter-Comparison widget: the sensors *)
(* picked for the comparison chart, each with a colour.                    *)
(***************************************************************************)
COLORS == <<"#8884d8", "#82ca9d", "#ffc658", "#ff7300", "#8dd1e1",
            "#d084d0", "#87d068">>

\* The sensors the widget lists (ProcessedSensorData, the fields the hook
\* reads).
MaxSensors == 2
SensorIds == 1..MaxSensors
Sensor(id) ==
  [sensorId |-> id, sensorName |-> "Door", park |-> "P1", world |-> "W1"]
SensorPool == {Sensor(id) : id \in SensorIds}

\* Array.prototype.filter.
RECURSIVE Filter_Keep(_, _)
Filter_Keep(list, sensorId) ==
  IF list = << >> THEN << >>
  ELSE IF Head(list).sensorId # sensorId
       THEN << Head(list) >> \o Filter_Keep(Tail(list), sensorId)
       ELSE Filter_Keep(Tail(list), sensorId)

SelectedSensor(sensor, color) ==
  [sensorId |-> sensor.sensorId, sensorName |-> sensor.sensorName,
   park |-> sensor.park, world |-> sensor.world, color |-> color]

SensorCalled(name, arg) ==
  sensorCall' = [name |-> name, arg |-> arg, found |-> Len(selectedSensors)]

SensorFrame ==
  UNCHANGED <<encVars, widgetVars, jobVars, filterVars, dayVars, waterVars>>

\* addSensor with `<=` in place of `<` in the limit test.
addSensor_OffByOne(sensor) ==
  /\ selectedSensors' =
       IF Len(selectedSensors) <= Len(COLORS)
       THEN Append(selectedSensors,
                   SelectedSensor(sensor,
                     IF Len(selectedSensors) < Len(COLORS)
                     THEN COLORS[Len(selectedSensors) + 1]
                     ELSE "undefined"))
       ELSE selectedSensors
  /\ SensorCalled("addSensor", sensor.sensorId)
  /\ SensorFrame

\* COLORS[prev.length] is 0-based: the colour at position Len + 1 here.
addSensor(sensor) ==
  /\ selectedSensors' =
       IF Len(selectedSensors) < Len(COLORS)
       THEN Append(selectedSensors,
                   SelectedSensor(sensor, COLORS[Len(selectedSensors) + 1]))
       ELSE selectedSensors
  /\ SensorCalled("addSensor", sensor.sensorId)
  /\ SensorFrame

removeSensor(sensorId) ==
  /\ selectedSensors' = Filter_Keep(selectedSensors, sensorId)
  /\ SensorCalled("removeSensor", sensorId)
  /\ SensorFrame

clearSensors ==
  /\ selectedSensors' = << >>
  /\ SensorCalled("clearSensors", 0)
  /\ SensorFrame

NextSensors ==
  \/ \E sensor \in SensorPool : addSensor(sensor)
  \/ \E sensorId \in SensorIds : removeSensor(sensorId)
  \/ clearSensors

SpecSensors == InitHooks /\ [][NextSensors]_vars

\* C22: after any sequence of addSensor, removeSensor and clearSensors
\* calls the selection holds at most COLORS.length = 7 sensors, and an
\* addSensor that finds the selection full leaves it as it is.
C22_SelectionLimit ==
  /\ [](Len(selectedSensors) <= Len(COLORS) /\ Len(COLORS) = 7)
  /\ [][((\E sensor \in SensorPool : addSensor(sensor))
          /\ Len(selectedSensors) >= Len(COLORS))
         => selectedSensors' = selectedSensors]_vars

\* addSensor was called on a selection of seven.
C22_Witness ==
  /\ sensorCall.name = "addSensor"
  /\ sensorCall.found = Len(COLORS)
  /\ Len(selectedSensors) = 7

\* C28: after any sequence of addSensor and removeSensor calls, no two
\* sensors that are selected at the same time have the same color.
C28_DistinctColours ==
  \A p1, p2 \in 1..Len(selectedSensors) :
    selectedSensors[p1].sensorId # selectedSensors[p2].sensorId
      => selectedSensors[p1].color # selectedSensors[p2].color

(***************************************************************************)
(* useDaySelection of the weather widget: the selected day, the selected   *)
(* hour of that day, the selected metric.                                  *)
(***************************************************************************)
\* Hour indexes 0..MaxHour of a day's hourlyData.
MaxHour == 2
Hours == 0..MaxHour
\* The days of a forecast (DayForecast, by its date).
Days == {"2026-11-02", "2026-11-03", "2026-11-04"}
Week == <<"2026-11-02", "2026-11-03", "2026-11-04">>
Metrics == {"temperature", "precipitation", "wind", "humidity",
            "soil_moisture", "evapotranspiration"}

DayCalled(name, arg) ==
  dayCall' = [name |-> name, arg |-> arg, found |-> selectedHourIndex]

DayFrame ==
  UNCHANGED <<encVars, widgetVars, jobVars, filterVars, sensorVars,
              waterVars>>

\* A render with new forecasts, and the effect that follows it: the first
\* day is selected when there is one and no day is selected yet.
ForecastsArrive(forecasts) ==
  /\ dayForecasts' = forecasts
  /\ selectedDay' = IF Len(forecasts) > 0 /\ selectedDay = NoDay
                    THEN forecasts[1]
                    ELSE selectedDay
  /\ UNCHANGED <<selectedHourIndex, selectedMetric, dayCall, hourClicked>>
  /\ DayFrame

\* A click on a chart; `clickedIndex` is NoHour when the event carries no
\* active payload.
handleChartClick(clickedIndex) ==
  /\ selectedHourIndex' =
       IF clickedIndex # NoHour
       THEN (IF clickedIndex = selectedHourIndex THEN NoHour
             ELSE clickedIndex)
       ELSE selectedHourIndex
  /\ hourClicked' = (hourClicked \/ clickedIndex # NoHour)
  /\ DayCalled("handleChartClick", clickedIndex)
  /\ UNCHANGED <<dayForecasts, selectedDay, selectedMetric>>
  /\ DayFrame

handleHourClick(index) ==
  /\ selectedHourIndex' =
       IF index = selectedHourIndex THEN NoHour ELSE index
  /\ hourClicked' = TRUE
  /\ DayCalled("handleHourClick", index)
  /\ UNCHANGED <<dayForecasts, selectedDay, selectedMetric>>
  /\ DayFrame

\* handleDaySelect without the reset of the hour.
handleDaySelect_KeepHour(day) ==
  /\ selectedDay' = day
  /\ UNCHANGED selectedHourIndex
  /\ hourClicked' = FALSE
  /\ DayCalled("handleDaySelect", day)
  /\ UNCHANGED <<dayForecasts, selectedMetric>>
  /\ DayFrame

handleDaySelect(day) ==
  /\ selectedDay' = day
  /\ selectedHourIndex' = NoHour
  /\ hourClicked' = FALSE
  /\ DayCalled("handleDaySelect", day)
  /\ UNCHANGED <<dayForecasts, selectedMetric>>
  /\ DayFrame

handleMetricChange(metric) ==
  /\ selectedMetric' = metric
  /\ DayCalled("handleMetricChange", metric)
  /\ UNCHANGED <<dayForecasts, selectedDay, selectedHourIndex, hourClicked>>
  /\ DayFrame

NextDay ==
  \/ \E forecasts \in {<< >>, Week} : ForecastsArrive(forecasts)
  \/ \E clickedIndex \in Hours \cup {NoHour} : handleChartClick(clickedIndex)
  \/ \E index \in Hours : handleHourClick(index)
  \/ \E day \in Days : handleDaySelect(day)
  \/ \E metric \in Metrics : handleMetricChange(metric)

SpecDay == InitHooks /\ [][NextDay]_vars

\* C24: handleHourClick(i) leaves selectedHourIndex null when it found i
\* there and i otherwise; handleDaySelect leaves it null; and it is
\* non-null only if an hour was clicked since the last handleDaySelect.
C24_HourResetOnDayChange ==
  /\ dayCall.name = "handleHourClick" =>
       selectedHourIndex =
         (IF dayCall.found = dayCall.arg THEN NoHour ELSE dayCall.arg)
  /\ dayCall.name = "handleDaySelect" => selectedHourIndex = NoHour
  /\ selectedHourIndex # NoHour => hourClicked

\* A day is selected while an hour of another day was selected.
C24_Witness ==
  /\ dayCall.name = "handleDaySelect"
  /\ dayCall.found # NoHour
  /\ dayCall.arg = selectedDay
  /\ selectedHourIndex = NoHour

\* The entity_record datapoints of the pass, and the metadata.index values
\* its entity_record_chunk datapoints are grouped by.
SingleRecordPoints ==
  {k \in 1..Len(deviceData) : deviceData[k].variable = "entity_record"}
ChunkGroups ==
  {deviceData[k].metadata.index :
     k \in {n \in 1..Len(deviceData) :
              deviceData[n].variable = "entity_record_chunk"}}

\* C25: after a pass over n records, the number of entity_record datapoints
\* plus the number of groups of entity_record_chunk datapoints (grouped by
\* metadata.index) is n, and every record number 0..n-1 has either exactly
\* one entity_record datapoint or one chunk group, never both.
C25_EveryRecordOnce ==
  pc = "formatted" =>
    /\ Cardinality(SingleRecordPoints) + Cardinality(ChunkGroups)
         = Len(entityRecords)
    /\ \A r \in RecordNumbers :
         \/ /\ Cardinality(RecordPointsAt(r)) = 1
            /\ ChunkPointsAt(r) = {}
         \/ /\ RecordPointsAt(r) = ChunkPointsAt(r)
            /\ ChunkPointsAt(r) # {}

\* A pass over a chunked record followed by a single-value record.
C25_Witness ==
  /\ pc = "formatted"
  /\ Len(entityRecords) = 2
  /\ Cardinality(ChunkPointsAt(0)) >= 2
  /\ Cardinality(SingleRecordPoints) = 1
  /\ Cardinality(ChunkGroups) = 1

\* C26: within one pass, two different input records that are both chunked
\* have different chunk_id values.
C26_ChunkGroupsDisjoint ==
  pc = "formatted" =>
    \A k1, k2 \in 1..Len(deviceData) :
      (/\ deviceData[k1].variable = "entity_record_chunk"
       /\ deviceData[k2].variable = "entity_record_chunk"
       /\ entityRecords[deviceData[k1].metadata.index + 1]
            # entityRecords[deviceData[k2].metadata.index + 1])
        => deviceData[k1].metadata.chunk_id
             # deviceData[k2].metadata.chunk_id

\* C27: a realtime delivery that yields no record leaves entityData and
\* isLoading as they were, and one that yields no camera device leaves
\* cameraDevices as they were.
C27_EmptyDeliveryKeepsView ==
  [][delivered' # delivered
       => /\ records' = << >>
               => (entityData' = entityData /\ isLoading' = isLoading)
          /\ cameras' = << >> => cameraDevices' = cameraDevices]_vars

\* After a delivery with a record and a camera, a delivery with neither:
\* both are still shown.
C27_Witness ==
  /\ mode = "production"
  /\ realtimeEventCount >= 2
  /\ realtimeData # << >>
  /\ records = << >>
  /\ cameras = << >>
  /\ entityData # << >>
  /\ cameraDevices # << >>
  /\ isLoading = FALSE

(***************************************************************************)
(* The water-level widget: processRealtimeData groups the datapoints of a  *)
(* delivery by group, keeps per variable the most recent value, builds one *)
(* record per group, keeps one record per pond name and sorts by name.     *)
(***************************************************************************)
\* dataPoint.time as TagoIO delivers it, and new Date(time).getTime() as
\* ms since the midnight before.
WaterTimes == {"2026-11-02T10:00:00.000Z", "2026-11-02T11:00:00.000Z"}
GetTime(time) ==
  CASE time = "2026-11-02T10:00:00.000Z" -> 36000000
    [] time = "2026-11-02T11:00:00.000Z" -> 39600000

\* A datapoint without metadata.
NoMetadata == "undefined"
Undefined == "undefined"
\* An object without properties.
EmptyObject == [w \in {} |-> w]

\* The datapoints a delivery is made of.  Levels are in hundredths of a
\* foot.
WaterPoint(variable, value, time, group, metadata) ==
  [variable |-> variable, value |-> value, time |-> time, group |-> group,
   metadata |-> metadata]
WaterPool ==
  { WaterPoint("name", StrValue(pond), time, group, metadata) :
      pond \in {"Pond A", "Pond B"}, time \in WaterTimes,
      group \in {"g1", "g2"}, metadata \in {NoMetadata, "mA", "mB"} }
  \cup
  { WaterPoint("navd_current_we", NumValue(1000), time, group, metadata) :
      time \in WaterTimes, group \in {"g1", "g2"},
      metadata \in {NoMetadata, "mA"} }
MaxWaterPoints == 3
\* The deliveries the widget is followed through.
MaxWaterDeliveries == 1

\* One pass of the dataGroup.result.forEach callback.  variablesByGroup is
\* kept as the group keys in insertion order and the object of each key;
\* the variables of a group are kept apart from its time, group, metadata
\* and variableTimes.
GroupStep(byGroup, point) ==
  LET groupKey == point.group
      found ==
        IF groupKey \in DOMAIN byGroup.object
        THEN byGroup.object[groupKey]
        ELSE [time |-> point.time, group |-> point.group,
              metadata |-> EmptyObject, variableTimes |-> EmptyObject,
              variables |-> EmptyObject]
      newDataPointTime == GetTime(point.time)
      moreRecent ==
        \/ point.variable \notin DOMAIN found.variableTimes
        \/ newDataPointTime > GetTime(found.variableTimes[point.variable])
      valued ==
        IF moreRecent
        THEN [found EXCEPT
                !.variables = (point.variable :> point.value) @@ @,
                !.variableTimes = (point.variable :> point.time) @@ @,
                !.time = IF newDataPointTime > GetTime(@) THEN point.time
                                                          ELSE @]
        ELSE found
      stored ==
        IF point.metadata # NoMetadata
        THEN [valued EXCEPT
                !.metadata = (point.variable :> point.metadata) @@ @]
        ELSE valued
  IN [keys |-> IF groupKey \in DOMAIN byGroup.object
               THEN byGroup.keys
               ELSE Append(byGroup.keys, groupKey),
      object |-> (groupKey :> stored) @@ byGroup.object]

\* dataGroup.result.forEach over the first n datapoints.
RECURSIVE VariablesByGroup(_, _)
VariablesByGroup(result, n) ==
  IF n = 0 THEN [keys |-> << >>, object |-> EmptyObject]
  ELSE GroupStep(VariablesByGroup(result, n - 1), result[n])

\* The reduce over Object.values(variables.variableTimes), from
\* variables.time: the latest of these times.
MostRecentTime(variables) ==
  CHOOSE latest \in
      {variables.time}
        \cup {variables.variableTimes[v] : v \in DOMAIN variables.variableTimes} :
    \A other \in
        {variables.time}
          \cup {variables.variableTimes[v] :
                  v \in DOMAIN variables.variableTimes} :
      GetTime(other) <= GetTime(latest)

\* The record built for a group; 114 is the 1.14 added to a level.
WaterLevelRecord(groupKey, variables) ==
  [id |-> groupKey,
   name |-> variables.variables["name"].str,
   currentLevel |-> variables.variables["navd_current_we"].num + 114,
   minOperational |-> Undefined,
   maxOperational |-> Undefined,
   normalLevel |-> 0,
   normalDeviation |-> 0,
   group |-> groupKey,
   created_at |-> variables.time,
   updated_at |-> variables.time,
   last_updated |-> MostRecentTime(variables),
   metadata |-> variables.metadata]

\* variables.name && variables.navd_current_we !== undefined
HasWaterLevel(variables) ==
  /\ "name" \in DOMAIN variables.variables
  /\ variables.variables["name"] # StrValue("")
  /\ "navd_current_we" \in DOMAIN variables.variables

\* Object.entries(variablesByGroup).forEach over the first n keys.
RECURSIVE NewWaterLevelData(_, _)
NewWaterLevelData(byGroup, n) ==
  IF n = 0 THEN << >>
  ELSE LET groupKey == byGroup.keys[n]
           variables == byGroup.object[groupKey]
       IN NewWaterLevelData(byGroup, n - 1)
            \o (IF HasWaterLevel(variables)
                THEN << WaterLevelRecord(groupKey, variables) >>
                ELSE << >>)

\* The uniquePonds map after the first n records: per pond name the first
\* record that no later record is strictly more recent than.
RECURSIVE UniquePonds(_, _)
UniquePonds(newData, n) ==
  IF n = 0 THEN EmptyObject
  ELSE LET before == UniquePonds(newData, n - 1)
           record == newData[n]
       IN IF \/ record.name \notin DOMAIN before
             \/ GetTime(record.last_updated)
                  > GetTime(before[record.name].last_updated)
          THEN (record.name :> record) @@ before
          ELSE before

\* a.name.localeCompare(b.name) on the pond names.
PondRank(name) == IF name = "Pond A" THEN 1 ELSE 2

\* Array.from(uniquePonds.values()).sort(...): the names are distinct.
SortedPonds(uniquePonds) ==
  LET ranks == {PondRank(name) : name \in DOMAIN uniquePonds}
      Nth(n) == CHOOSE name \in DOMAIN uniquePonds :
                  Cardinality({o \in ranks : o < PondRank(name)}) = n - 1
  IN [n \in 1..Cardinality(DOMAIN uniquePonds) |-> uniquePonds[Nth(n)]]

\* The value setWaterLevelData is called with for one dataGroup, << >> when
\* it is not called.
WaterProcessed(result) ==
  LET byGroup == VariablesByGroup(result, Len(result))
      newData == NewWaterLevelData(byGroup, Len(byGroup.keys))
  IN IF Len(newData) > 0
     THEN SortedPonds(UniquePonds(newData, Len(newData)))
     ELSE << >>

WaterFrame ==
  UNCHANGED <<encVars, widgetVars, jobVars, filterVars, sensorVars, dayVars>>

\* processRealtimeData([{ result }]) of the water-level widget.
WaterProcessRealtimeData(result) ==
  /\ waterRealtime' = result
  /\ waterEventCount' = waterEventCount + 1
  /\ IF Len(WaterProcessed(result)) > 0
     THEN /\ waterLevelData' = WaterProcessed(result)
          /\ waterLoading' = FALSE
     ELSE UNCHANGED <<waterLevelData, waterLoading>>
  /\ WaterFrame

\* TagoIO.onRealtime: one delivery.
WaterOnRealtime ==
  /\ waterEventCount < MaxWaterDeliveries
  /\ \E result \in SeqsUpTo(WaterPool, MaxWaterPoints) :
       WaterProcessRealtimeData(result)

\* TagoIO.onError
WaterOnError ==
  /\ waterLoading' = FALSE
  /\ UNCHANGED <<waterRealtime, waterLevelData, waterEventCount>>
  /\ WaterFrame

NextWater == WaterOnRealtime \/ WaterOnError

SpecWater == InitHooks /\ [][NextWater]_vars

\* No two datapoints of one (group, variable) carry the same time: each
\* (group, variable) has one datapoint with the greatest time.
DistinctTimes(result) ==
  \A q1, q2 \in 1..Len(result) :
    (/\ q1 # q2
     /\ result[q1].group = result[q2].group
     /\ result[q1].variable = result[q2].variable)
      => result[q1].time # result[q2].time

\* C23: the waterLevelData of a delivery holds, for each (group, variable),
\* the value of the datapoint with the greatest time, so every permutation
\* of the same datapoints gives the same waterLevelData.
C23_LatestValueWins ==
  (waterEventCount = 1 /\ DistinctTimes(waterRealtime)) =>
    \A reordered \in Reorderings(waterRealtime) :
      WaterProcessed(reordered) = WaterProcessed(waterRealtime)

====
